---- MODULE Spec2Model ----
(***************************************************************************)
(* A model of card_extractor (src/src/card_extractor/main.py):             *)
(*   - parse_pages, the page-selector parser, as an operator over strings  *)
(*     (sequences of one-character strings), applied by SpecParse;         *)
(*   - process_pdf, the per-document extraction state machine, with the    *)
(*     output directory as state, run by Spec.                             *)
(***************************************************************************)
EXTENDS Integers, Sequences, FiniteSets, TLC

VARIABLES
    pc,                \* position in the program
    pages_string,      \* the selector argument: [present, chars]
    total_pages,       \* parse_pages' total_pages / len(doc)
    pages_to_process,  \* the set parse_pages returned
    warnings,          \* the warnings parse_pages printed, in order
    raised,            \* the exception parse_pages, or the region detector,
                       \* let escape ("none" if none)
    run,               \* number of process_pdf calls made so far
    dir_exists,        \* os.path.exists(output_folder)
    files,             \* the output directory: file name -> content
    doc,               \* the document of the current call: [stem, npages]
    doc_open,          \* the document is open (not yet closed)
    output_format,     \* the requested output format
    pages_left,        \* pages of pages_to_process not yet iterated
    page_idx,          \* the current page, 0-based
    image_list,        \* page.get_images(full=True)
    bad_xrefs,         \* the xrefs for which doc.extract_image raises
    img_pos,           \* position of the native loop in image_list
    position_signatures, \* signatures seen on this page
    img_count,         \* ordinal counter of the native loop
    extracted_any_images,
    temp_files,        \* temporary rendered-page files that exist
    exc,               \* an exception is propagating out of the fallback
    extracted_regions, \* number of regions the detector returned
    region_i,          \* index i of the loop over extracted_regions
    fetched,           \* history: the refs doc.extract_image was called for
    page_written,      \* history: the files written for the current page
    fallback_ran,      \* history: the fallback was entered for this page
    last_reserve,      \* history: the last name reservation
    messages,          \* the document-level message printed by this call
    opens,             \* history: fitz.open calls of this call's lines 221-236
    prompts,           \* history: password prompts of this call's lines 221-236
    password,          \* what input() did at line 226: [eof, text]
    errors_logged,     \* history: the refs whose extraction error was printed
    image_path,        \* detect_and_extract_image_regions' image_path
    image,             \* cv2.imread(image_path): [readable, width, height]
    contours,          \* cv2.findContours' result: [area, x, y, w, h] each
    min_area,          \* detect_and_extract_image_regions' min_area
    extracted_images,  \* the list detect_and_extract_image_regions returned
    printed,           \* what detect_and_extract_image_regions printed
    page_env,          \* per page: what it holds and how its steps end
    orders,            \* two orders in which the page loop may take the pages
    outcomes,          \* the output directory the loop leaves, per order
    scope              \* what this exploration covers: [runs, refs, regions, formats]

parse_vars == <<pages_string, total_pages, pages_to_process, warnings, raised>>

dir_vars == <<run, dir_exists, files>>

call_vars == <<doc, doc_open, output_format, pages_left, messages>>

page_vars == <<page_idx, image_list, bad_xrefs, img_pos, position_signatures,
               img_count, extracted_any_images, temp_files, exc,
               extracted_regions, region_i>>

history_vars == <<fetched, page_written, fallback_ran, last_reserve,
                  errors_logged>>

open_vars == <<opens, prompts, password>>

detect_vars == <<image_path, image, contours, min_area, extracted_images,
                 printed>>

order_vars == <<page_env, orders, outcomes>>

vars == <<pc, parse_vars, dir_vars, call_vars, page_vars, history_vars,
          open_vars, detect_vars, order_vars, scope>>

(***************************************************************************)
(* Bounds of the model.                                                    *)
(***************************************************************************)
MaxLen == 5        \* longest enumerated selector string
MaxPages == 3      \* largest enumerated total_pages

(***************************************************************************)
(* Python built-ins used by parse_pages.                                   *)
(***************************************************************************)
max(a, b) == IF a >= b THEN a ELSE b

min(a, b) == IF a <= b THEN a ELSE b

range_either_way(a, b) == IF a <= b THEN a .. (b - 1) ELSE b .. (a - 1)

\* range(a, b): the integers a, a+1, ..., b-1
range(a, b) == a .. (b - 1)

DigitChars == <<"0", "1", "2", "3", "4", "5", "6", "7", "8", "9">>

IsDigit(c) == \E i \in 1..Len(DigitChars) : DigitChars[i] = c

DigitVal(c) == (CHOOSE i \in 1..Len(DigitChars) : DigitChars[i] = c) - 1

\* str.split(sep): the pieces between the occurrences of sep, empty ones kept
RECURSIVE split(_, _)
split(s, sep) ==
    IF \A i \in 1..Len(s) : s[i] # sep
    THEN <<s>>
    ELSE LET k == CHOOSE i \in 1..Len(s) :
                    s[i] = sep /\ \A j \in 1..(i - 1) : s[j] # sep
         IN  <<SubSeq(s, 1, k - 1)>> \o split(SubSeq(s, k + 1, Len(s)), sep)

\* int() ignores surrounding whitespace
RECURSIVE strip(_)
strip(s) ==
    IF s = <<>> THEN s
    ELSE IF Head(s) = " " THEN strip(Tail(s))
    ELSE IF s[Len(s)] = " " THEN strip(SubSeq(s, 1, Len(s) - 1))
    ELSE s

RECURSIVE digits_value(_)
digits_value(s) ==
    IF s = <<>> THEN 0
    ELSE 10 * digits_value(SubSeq(s, 1, Len(s) - 1)) + DigitVal(s[Len(s)])

\* int(s) for a str s: an optional sign and decimal digits, whitespace
\* around them ignored; anything else raises ValueError.
int(s) ==
    LET t == strip(s)
        signed == t # <<>> /\ Head(t) \in {"+", "-"}
        u == IF signed THEN Tail(t) ELSE t
    IN  IF u # <<>> /\ \A i \in 1..Len(u) : IsDigit(u[i])
        THEN [exc |-> "none",
              v |-> IF signed /\ Head(t) = "-" THEN 0 - digits_value(u)
                                               ELSE digits_value(u)]
        ELSE [exc |-> "ValueError", v |-> 0]

(***************************************************************************)
(* parse_pages (main.py 69-110).  The accumulator acc carries the set      *)
(* built so far, the warnings printed so far and the exception, if any,    *)
(* that left the loop.                                                     *)
(***************************************************************************)
\* `if not pages_string`: None and "" are both falsy
truthy(ps) == ps.present /\ ps.chars # <<>>

all_pages_off_by_one(total) == 1 .. total

\* line 82: set(range(total_pages))
all_pages(total) == range(0, total)

clamp_start_no_shift(start) == max(1, start)

\* line 93: start = max(1, start) - 1
clamp_start(start) == max(1, start) - 1

clamp_end_unclamped(end, total) == end - 1

\* line 94: end = min(total_pages, end) - 1
clamp_end(end, total) == min(total, end) - 1

on_value_error_uncaught(acc, w) == [acc EXCEPT !.raised = "ValueError"]

\* lines 97-98 and 107-108: except ValueError: print a warning, go on
on_value_error(acc, w) == [acc EXCEPT !.warnings = Append(@, w)]

\* lines 90-98: a part that contains '-'
range_part(part, total, acc) ==
    LET pieces == split(part, "-")
        vals == [i \in 1..Len(pieces) |-> int(pieces[i])]
    IN  IF Len(pieces) # 2 \/ \E i \in 1..Len(pieces) : vals[i].exc # "none"
        THEN on_value_error(acc, [kind |-> "invalid_range", part |-> part])
        ELSE LET start == clamp_start(vals[1].v)
                 end == clamp_end(vals[2].v, total)
             IN  [acc EXCEPT !.pages = @ \cup range(start, end + 1)]

\* lines 100-108: a part without '-'
single_part(part, total, acc) ==
    LET r == int(part)
    IN  IF r.exc # "none"
        THEN on_value_error(acc, [kind |-> "invalid_number", part |-> part])
        ELSE LET page == r.v - 1
             IN  IF 0 <= page /\ page < total
                 THEN [acc EXCEPT !.pages = @ \cup {page}]
                 ELSE [acc EXCEPT !.warnings =
                           Append(@, [kind |-> "out_of_range", part |-> part])]

\* lines 87-108: the loop over the comma-separated parts; an exception that
\* escapes a part ends the loop
RECURSIVE parse_parts(_, _, _, _)
parse_parts(parts, i, total, acc) ==
    IF i > Len(parts) \/ acc.raised # "none" THEN acc
    ELSE parse_parts(parts, i + 1, total,
             IF \E j \in 1..Len(parts[i]) : parts[i][j] = "-"
             THEN range_part(parts[i], total, acc)
             ELSE single_part(parts[i], total, acc))

parse_pages(ps, total) ==
    IF ~truthy(ps)
    THEN [pages |-> all_pages(total), warnings |-> <<>>, raised |-> "none"]
    ELSE parse_parts(split(ps.chars, ","), 1, total,
                     [pages |-> {}, warnings |-> <<>>, raised |-> "none"])

(***************************************************************************)
(* Inputs of parse_pages.                                                  *)
(***************************************************************************)
None == [present |-> FALSE, chars |-> <<>>]

Sel(chars) == [present |-> TRUE, chars |-> chars]

Alphabet == {"0", "1", "2", "-", ",", "a"}

Strings(n) == UNION {[1..k -> Alphabet] : k \in 0..n}

\* the selectors of the documentation and the tests, and signs and blanks
ExampleInputs ==
    { <<Sel(<<"2", "-", "5">>), 10>>,
      <<Sel(<<"1", ",", "3", "-", "5", ",", "8">>), 10>>,
      <<Sel(<<"3", ",", "8">>), 5>>,
      <<Sel(<<"1", ",", "a", ",", "3">>), 5>>,
      <<Sel(<<"1", ",", " ", "2">>), 2>>,
      <<Sel(<<"+", "2", "-", "3">>), 5>>,
      <<Sel(<<"2", "-", "+", "3">>), 5>>,
      <<None, 5>> }

ParseInputs ==
    ({None} \cup {Sel(s) : s \in Strings(MaxLen)}) \X (0..MaxPages)
        \cup ExampleInputs

(***************************************************************************)
(* Strings and file names of process_pdf.                                  *)
(***************************************************************************)
\* str(n) for an int n
RECURSIVE str_nat(_)
str_nat(n) ==
    IF n < 10 THEN <<DigitChars[n + 1]>>
    ELSE str_nat(n \div 10) \o <<DigitChars[(n % 10) + 1]>>

str_int(n) == IF n < 0 THEN <<"-">> \o str_nat(0 - n) ELSE str_nat(n)

\* the primitives of a placement tuple: ints and strings
Num(n) == [t |-> "int", i |-> n, s |-> <<>>]

Text(chars) == [t |-> "str", i |-> 0, s |-> chars]

\* str(x) for a primitive x
str(x) == IF x.t = "int" THEN str_int(x.i) ELSE x.s

\* sep.join(strs)
RECURSIVE join(_, _)
join(sep, strs) ==
    IF strs = <<>> THEN <<>>
    ELSE IF Len(strs) = 1 THEN strs[1]
    ELSE strs[1] \o sep \o join(sep, Tail(strs))

\* line 269: '-'.join(str(x) for x in img)
position_sig(img) == join(<<"-">>, [k \in 1..Len(img) |-> str(img[k])])

\* os.path.splitext of a file name without directory: cut at the last dot,
\* unless only dots precede it
splitext(p) ==
    LET dots == {k \in 1..Len(p) : p[k] = "."}
    IN  IF dots = {} THEN <<p, <<>>>>
        ELSE LET d == CHOOSE k \in dots : \A m \in dots : m <= k
             IN  IF \E j \in 1..(d - 1) : p[j] # "."
                 THEN <<SubSeq(p, 1, d - 1), SubSeq(p, d, Len(p))>>
                 ELSE <<p, <<>>>>

\* lines 284, 335, 361: f"{source_doc_name}-page-{page_num}-image-{n}.{ext}"
base_filename(source_doc_name, page_num, n, ext) ==
    source_doc_name \o <<"-", "p", "a", "g", "e", "-">> \o str_int(page_num)
        \o <<"-", "i", "m", "a", "g", "e", "-">> \o str_int(n) \o <<".">> \o ext

RECURSIVE reserve_loop_from_path(_, _, _, _)
reserve_loop_from_path(base, output_path, counter, names) ==
    IF output_path \notin names THEN output_path
    ELSE LET filename_parts == splitext(output_path)
             new_filename == filename_parts[1] \o <<"_">> \o str_int(counter)
                                 \o filename_parts[2]
         IN  reserve_loop_from_path(base, new_filename, counter + 1, names)

\* lines 289-294 (and 340-344, 366-370): while os.path.exists(output_path)
RECURSIVE reserve_loop(_, _, _, _)
reserve_loop(base, output_path, counter, names) ==
    IF output_path \notin names THEN output_path
    ELSE LET filename_parts == splitext(base)
             new_filename == filename_parts[1] \o <<"_">> \o str_int(counter)
                                 \o filename_parts[2]
         IN  reserve_loop(base, new_filename, counter + 1, names)

reserve_unchecked(base, names) == base

\* lines 285-294: the path the next file is written to
reserve(base, names) == reserve_loop(base, base, 1, names)

\* open(path, "wb").write(data) / Image.save(path): creates or replaces
write(dir, path, content) ==
    [n \in DOMAIN dir \cup {path} |-> IF n = path THEN content ELSE dir[n]]

(***************************************************************************)
(* The environment: documents, placement tuples, formats.                  *)
(***************************************************************************)
MaxRuns == 2       \* process_pdf calls into the same output directory
MaxRefs == 3       \* refs get_images reports for one page
MaxRegions == 2    \* regions the detector returns for one page

Docs == { [stem |-> <<"a">>, npages |-> 2], [stem |-> <<"b">>, npages |-> 1] }

NoDoc == [stem |-> <<>>, npages |-> 0]

png == <<"p", "n", "g">>

jpeg == <<"j", "p", "e", "g">>

bmp == <<"b", "m", "p">>

\* choices of --format (line 47) the model requests
Formats == {png, bmp}

\* the selectors the model calls process_pdf with
CallSelectors == {None, Sel(<<"2">>)}

\* placement tuples (xref, name, filter): RefA and RefB differ but have the
\* same position signature 1-a-b-c; RefC places xref 1 a second time
RefA == <<Num(1), Text(<<"a", "-", "b">>), Text(<<"c">>)>>

RefB == <<Num(1), Text(<<"a">>), Text(<<"b", "-", "c">>)>>

RefC == <<Num(1), Text(<<"a">>), Text(<<"c">>)>>

RefD == <<Num(2), Text(<<"a">>), Text(<<"c">>)>>

RefPool == {RefA, RefB, RefC, RefD}

RefLists == UNION {[1..k -> RefPool] : k \in 0..MaxRefs}

Xref(img) == img[1].i

\* image_data["ext"]: the extension the document declares for an image
image_ext(xref) == IF xref = 1 THEN png ELSE jpeg

\* a file name that earlier runs may have left in the output directory
Foo(suffix) ==
    <<"a", "-", "p", "a", "g", "e", "-", "1", "-", "i", "m", "a", "g", "e",
      "-", "1">> \o suffix \o <<".", "p", "n", "g">>

Old == [run |-> 0, src |-> "old", id |-> 0, enc |-> <<>>]

InitialDirs ==
    { {},
      {Foo(<<>>)},
      {Foo(<<>>), Foo(<<"_", "2">>)},
      {Foo(<<>>), Foo(<<"_", "1">>), Foo(<<"_", "2">>)} }

NoReserve == [base |-> <<>>, ext |-> <<>>, before |-> {}, path |-> <<>>]

\* the values of the per-page variables outside a page
PageReset ==
    /\ page_idx' = 0
    /\ image_list' = <<>>
    /\ bad_xrefs' = {}
    /\ img_pos' = 1
    /\ position_signatures' = {}
    /\ img_count' = 0
    /\ extracted_any_images' = FALSE
    /\ exc' = FALSE
    /\ extracted_regions' = 0
    /\ region_i' = 0
    /\ fetched' = <<>>
    /\ page_written' = <<>>
    /\ fallback_ran' = FALSE
    /\ last_reserve' = NoReserve
    /\ errors_logged' = <<>>

PageIdle ==
    /\ page_idx = 0
    /\ image_list = <<>>
    /\ bad_xrefs = {}
    /\ img_pos = 1
    /\ position_signatures = {}
    /\ img_count = 0
    /\ extracted_any_images = FALSE
    /\ temp_files = {}
    /\ exc = FALSE
    /\ extracted_regions = 0
    /\ region_i = 0
    /\ fetched = <<>>
    /\ page_written = <<>>
    /\ fallback_ran = FALSE
    /\ last_reserve = NoReserve
    /\ errors_logged = <<>>

\* input() returns text, or raises EOFError at the end of the input
Typed(text) == [eof |-> FALSE, text |-> text]

EndOfInput == [eof |-> TRUE, text |-> <<>>]

NoInput == Typed(<<>>)

\* what the user may answer to the password prompt
Inputs == {Typed(<<>>), Typed(<<"p", "w">>), EndOfInput}

CallIdle ==
    /\ doc = NoDoc
    /\ doc_open = FALSE
    /\ output_format = png
    /\ pages_left = {}
    /\ messages = <<>>
    /\ opens = 0
    /\ prompts = 0
    /\ password = NoInput

(***************************************************************************)
(* detect_and_extract_image_regions (main.py 113-183).  The page bitmap is *)
(* what cv2.imread makes of the file; a contour is what the function asks  *)
(* of it: cv2.contourArea and cv2.boundingRect.                            *)
(***************************************************************************)
MaxContours == 3   \* contours cv2.findContours reports for one bitmap

DefaultMinArea == 1000

\* cv2.imread returns None for a file it cannot read or decode
NoImage == [readable |-> FALSE, width |-> 0, height |-> 0]

Bitmap(width, height) == [readable |-> TRUE, width |-> width, height |-> height]

Contour(area, x, y, w, h) == [area |-> area, x |-> x, y |-> y, w |-> w, h |-> h]

is_significant_or_equal(area, m) == area >= m

\* line 150: cv2.contourArea(cnt) > min_area
is_significant(area, m) == area > m

\* line 150: the indices, in findContours' order, of the contours kept
RECURSIVE significant_contours(_, _, _)
significant_contours(cnts, m, k) ==
    IF k > Len(cnts) THEN <<>>
    ELSE (IF is_significant(cnts[k].area, m) THEN <<k>> ELSE <<>>)
             \o significant_contours(cnts, m, k + 1)

stays_before_ascending(a, b) == a <= b

\* line 153: with reverse=True an element stays before a later one unless
\* the later one's key is larger
stays_before(a, b) == a >= b

\* k goes behind every element that stays before it
RECURSIVE insert_sorted(_, _, _)
insert_sorted(cnts, idx, k) ==
    IF idx = <<>> THEN <<k>>
    ELSE IF stays_before(cnts[Head(idx)].area, cnts[k].area)
         THEN <<Head(idx)>> \o insert_sorted(cnts, Tail(idx), k)
         ELSE <<k>> \o idx

\* line 153: list.sort(key=cv2.contourArea, reverse=True), a stable sort
RECURSIVE sort(_, _)
sort(cnts, idx) ==
    IF idx = <<>> THEN <<>>
    ELSE insert_sorted(cnts, sort(cnts, SubSeq(idx, 1, Len(idx) - 1)),
                       idx[Len(idx)])

margin_rounded_up(w) == (w + 19) \div 20

\* lines 163-164: int(w * 0.05)
margin(w) == w \div 20

\* lines 160-170: the bounding rectangle, widened by the margins and cut at
\* the bitmap's edges
region_rect(c, width, height) ==
    [x1 |-> max(0, c.x - margin(c.w)),
     y1 |-> max(0, c.y - margin(c.h)),
     x2 |-> min(width, c.x + c.w + margin(c.w)),
     y2 |-> min(height, c.y + c.h + margin(c.h))]

rect_area(r) == (r.x2 - r.x1) * (r.y2 - r.y1)

skipped_small_only(region_area, page_area, m) == region_area < m

\* line 178: region_area < min_area or region_area > page_area * 0.9
skipped(region_area, page_area, m) ==
    region_area < m \/ 10 * region_area > 9 * page_area

\* lines 158-181: the loop over the sorted contours
RECURSIVE extract_regions(_, _, _, _)
extract_regions(cnts, idx, img, m) ==
    IF idx = <<>> THEN <<>>
    ELSE LET region == region_rect(cnts[Head(idx)], img.width, img.height)
         IN  (IF skipped(rect_area(region), img.width * img.height, m)
              THEN <<>>
              ELSE <<[rect |-> region, contour |-> Head(idx)]>>)
                 \o extract_regions(cnts, Tail(idx), img, m)

on_unreadable_unchecked(path) ==
    [returned |-> <<>>, printed |-> <<>>, raised |-> "AttributeError"]

\* lines 126-128: if image is None
on_unreadable(path) ==
    [returned |-> <<>>,
     printed |-> <<<<"Error: Could not read image at", path>>>>,
     raised |-> "none"]

detect_and_extract_image_regions(path, img, cnts, m) ==
    IF ~img.readable THEN on_unreadable(path)
    ELSE [returned |-> extract_regions(cnts, sort(cnts,
                           significant_contours(cnts, m, 1)), img, m),
          printed |-> <<>>,
          raised |-> "none"]

\* the temporary files process_pdf hands to the detector
ImagePaths == {<<"t", "m", "p", "1">>, <<"t", "m", "p", "2">>}

Bitmaps == {Bitmap(40, 40), Bitmap(40, 50)}

MinAreas == {DefaultMinArea, 900}

\* contours at and around the thresholds of lines 150 and 178, and one less
\* than 20 pixels wide
ContourPool ==
    { Contour(800, 10, 0, 19, 50),
      Contour(900, 5, 0, 30, 35),
      Contour(950, 5, 0, 30, 35),
      Contour(1000, 2, 2, 36, 36),
      Contour(1001, 2, 2, 36, 36),
      Contour(1001, 0, 0, 40, 40),
      Contour(1100, 0, 0, 36, 36),
      Contour(1200, 2, 0, 36, 40),
      Contour(1300, 0, 0, 40, 43),
      Contour(1400, 0, 0, 40, 46),
      Contour(1500, 0, 0, 40, 40) }

\* what findContours can report for a bitmap: the bounding rectangle lies
\* inside the bitmap and encloses the contour
ContoursOf(img) ==
    {c \in ContourPool : /\ c.x + c.w <= img.width
                         /\ c.y + c.h <= img.height
                         /\ c.area <= (c.w - 1) * (c.h - 1)}

ContourLists(img) == UNION {[1..k -> ContoursOf(img)] : k \in 0..MaxContours}

DetectIdle ==
    /\ image_path = <<>>
    /\ image = NoImage
    /\ contours = <<>>
    /\ min_area = DefaultMinArea
    /\ extracted_images = <<>>
    /\ printed = <<>>

OrderIdle ==
    /\ page_env = <<>>
    /\ orders = <<>>
    /\ outcomes = <<>>

ProcessIdle ==
    /\ run = 0 /\ dir_exists = TRUE /\ files = <<>>
    /\ CallIdle
    /\ PageIdle
    /\ OrderIdle
    /\ scope = [runs |-> 0, refs |-> 0, regions |-> 0, formats |-> {}]

\* SpecDetect: the detector applied to every bitmap and contour list
InitDetect ==
    /\ pc = "detect_call"
    /\ \/ /\ image = NoImage
          /\ image_path \in ImagePaths
          /\ contours = <<>>
       \/ /\ image \in Bitmaps
          /\ image_path = <<"t", "m", "p", "1">>
          /\ contours \in ContourLists(image)
    /\ min_area \in MinAreas
    /\ extracted_images = <<>>
    /\ printed = <<>>
    /\ pages_string = None
    /\ total_pages = 0
    /\ pages_to_process = {}
    /\ warnings = <<>>
    /\ raised = "none"
    /\ ProcessIdle

DetectRegions ==
    /\ pc = "detect_call"
    /\ LET r == detect_and_extract_image_regions(image_path, image, contours,
                                                 min_area)
       IN  /\ extracted_images' = r.returned
           /\ printed' = r.printed
           /\ raised' = r.raised
    /\ pc' = "detect_done"
    /\ UNCHANGED <<image_path, image, contours, min_area, pages_string,
                   total_pages, pages_to_process, warnings, dir_vars, call_vars,
                   page_vars, history_vars, open_vars, order_vars, scope>>

NextDetect == DetectRegions

SpecDetect == InitDetect /\ [][NextDetect]_vars

(***************************************************************************)
(* SpecParse: parse_pages applied to every input.                          *)
(***************************************************************************)
InitParse ==
    /\ pc = "parse_call"
    /\ \E in \in ParseInputs : pages_string = in[1] /\ total_pages = in[2]
    /\ pages_to_process = {}
    /\ warnings = <<>>
    /\ raised = "none"
    /\ ProcessIdle
    /\ DetectIdle

ParsePages ==
    /\ pc = "parse_call"
    /\ LET r == parse_pages(pages_string, total_pages)
       IN  /\ pages_to_process' = r.pages
           /\ warnings' = r.warnings
           /\ raised' = r.raised
    /\ pc' = "parse_done"
    /\ UNCHANGED <<pages_string, total_pages, dir_vars, call_vars, page_vars,
                   history_vars, open_vars, detect_vars, order_vars, scope>>

NextParse == ParsePages

SpecParse == InitParse /\ [][NextParse]_vars

(***************************************************************************)
(* process_pdf (main.py 205-391), one action per step, called again and   *)
(* again with the same output directory.                                   *)
(***************************************************************************)
Idle ==
    /\ pc = "idle"
    /\ pages_string = None
    /\ total_pages = 0
    /\ pages_to_process = {}
    /\ warnings = <<>>
    /\ raised = "none"
    /\ run = 0
    /\ \E d \in InitialDirs :
          /\ files = [n \in d |-> Old]
          /\ dir_exists \in (IF d = {} THEN BOOLEAN ELSE {TRUE})
    /\ CallIdle
    /\ PageIdle
    /\ DetectIdle
    /\ OrderIdle

\* Spec: up to MaxRuns calls, one after another, asking for png, of pages
\* with at most one ref and one region
Init ==
    /\ Idle
    /\ scope = [runs |-> MaxRuns, refs |-> 1, regions |-> 1, formats |-> {png}]

\* SpecPage: one call, of pages with fewer than MaxRefs refs and up to
\* MaxRegions regions
InitPage ==
    /\ Idle
    /\ scope = [runs |-> 1, refs |-> MaxRefs - 1, regions |-> MaxRegions,
                formats |-> Formats]

\* SpecRefs: one call into an empty directory, of pages with up to MaxRefs
\* refs and one region
InitRefs ==
    /\ Idle
    /\ files = <<>>
    /\ scope = [runs |-> 1, refs |-> MaxRefs, regions |-> 1, formats |-> {png}]

\* process_pdf returns: msg is the document-level message it printed,
\* opened the number of fitz.open calls it made at lines 221-236
Return(msg, still_open, opened) ==
    /\ pc' = "idle"
    /\ messages' = msg
    /\ doc_open' = still_open
    /\ opens' = opened
    /\ doc' = NoDoc
    /\ output_format' = png
    /\ pages_left' = {}
    /\ pages_string' = None
    /\ total_pages' = 0
    /\ pages_to_process' = {}
    /\ warnings' = <<>>
    /\ raised' = "none"
    /\ PageReset
    /\ password' = NoInput
    /\ UNCHANGED <<temp_files, dir_vars, prompts, detect_vars, order_vars, scope>>

\* main / process_directory call process_pdf (lines 411, 416, 438)
Call ==
    /\ pc = "idle"
    /\ run < scope.runs
    /\ \E d \in Docs, f \in scope.formats, ps \in CallSelectors :
          /\ doc' = d
          /\ output_format' = f
          /\ pages_string' = ps
    /\ run' = run + 1
    /\ doc_open' = FALSE
    /\ messages' = <<>>
    /\ pc' = "makedirs"
    /\ opens' = 0
    /\ prompts' = 0
    /\ password' = NoInput
    /\ UNCHANGED <<total_pages, pages_to_process, warnings, raised, dir_exists,
                   files, pages_left, page_vars, history_vars>>
    /\ UNCHANGED <<detect_vars, order_vars, scope>>

\* lines 217-218: the output directory exists or is created
MakeDirsOk ==
    /\ pc = "makedirs"
    /\ dir_exists' = TRUE
    /\ pc' = "open"
    /\ UNCHANGED <<parse_vars, run, files, call_vars, page_vars, history_vars>>
    /\ UNCHANGED <<open_vars, detect_vars, order_vars, scope>>

\* lines 386-391: the handlers of the outer try; `except Exception` takes
\* whatever the two named handlers leave
caught_named_only(kind) == kind \in {"FileNotFoundError", "FileDataError"}

caught(kind) ==
    \/ kind \in {"FileNotFoundError", "FileDataError"}
    \/ kind \in {"RuntimeError", "OSError", "EOFError", "Exception"}

open_message(kind) ==
    IF kind = "FileNotFoundError" THEN <<"Error: PDF file not found">>
    ELSE IF kind = "FileDataError" THEN <<"Error: corrupted or not a valid PDF">>
    ELSE <<"Error processing PDF">>

\* an exception of this kind leaves the outer try block: a handler prints
\* its message and process_pdf returns, or the exception goes on to the
\* caller and ends the program
Raise(kind, still_open, opened) ==
    IF caught(kind)
    THEN Return(open_message(kind), still_open, opened)
    ELSE /\ pc' = "propagated"
         /\ opens' = opened
         /\ UNCHANGED <<parse_vars, dir_vars, call_vars, page_vars,
                        history_vars, prompts, password, detect_vars, order_vars, scope>>

\* os.makedirs raises: caught at line 390
MakeDirsFail ==
    /\ pc = "makedirs"
    /\ ~dir_exists
    /\ Raise("OSError", FALSE, opens)

\* line 222: fitz.open succeeds
OpenOk ==
    /\ pc = "open"
    /\ doc_open' = TRUE
    /\ opens' = opens + 1
    /\ pc' = "select"
    /\ UNCHANGED <<parse_vars, dir_vars, doc, output_format, pages_left,
                   messages, page_vars, history_vars>>
    /\ UNCHANGED <<prompts, password, detect_vars, order_vars, scope>>

\* line 222 raises something that is not a password failure: lines 236, 386-391
OpenFail ==
    /\ pc = "open"
    /\ \E kind \in {"FileNotFoundError", "FileDataError", "RuntimeError"} :
          Raise(kind, FALSE, opens + 1)

\* lines 223-226: RuntimeError mentioning a password; input() prompts and
\* the user answers
OpenPasswordRequired ==
    /\ pc = "open"
    /\ opens' = opens + 1
    /\ prompts' = prompts + 1
    /\ password' \in Inputs
    /\ pc' = "password"
    /\ UNCHANGED <<parse_vars, dir_vars, call_vars, page_vars, history_vars>>
    /\ UNCHANGED <<detect_vars, order_vars, scope>>

\* the second open succeeds
PasswordOpened ==
    /\ doc_open' = TRUE
    /\ opens' = opens + 1
    /\ password' = NoInput
    /\ pc' = "select"
    /\ UNCHANGED <<parse_vars, dir_vars, doc, output_format, pages_left,
                   messages, page_vars, history_vars>>
    /\ UNCHANGED <<prompts, detect_vars, order_vars, scope>>

PasswordEmptyStillOpens ==
    /\ pc = "password"
    /\ ~password.eof /\ password.text = <<>>
    /\ PasswordOpened

\* lines 227-229: empty input
PasswordEmpty ==
    /\ pc = "password"
    /\ ~password.eof /\ password.text = <<>>
    /\ Return(<<"No password provided">>, FALSE, opens)

\* line 226: input() raises: caught at line 390
PasswordInputFail ==
    /\ pc = "password"
    /\ password.eof
    /\ Raise("EOFError", FALSE, opens)

\* lines 230-231: a password was typed; the second open succeeds
PasswordOpenOk ==
    /\ pc = "password"
    /\ ~password.eof /\ password.text # <<>>
    /\ PasswordOpened

\* lines 232-234: the second open fails
PasswordOpenFail ==
    /\ pc = "password"
    /\ ~password.eof /\ password.text # <<>>
    /\ Return(<<"Incorrect password">>, FALSE, opens + 1)

\* lines 238-244: the document is open, lines 221-236 are left behind;
\* pages_to_process = parse_pages(pages_string, len(doc))
SelectPages ==
    /\ pc = "select"
    /\ LET r == parse_pages(pages_string, doc.npages)
       IN  /\ total_pages' = doc.npages
           /\ pages_to_process' = r.pages
           /\ pages_left' = r.pages
           /\ warnings' = r.warnings
           /\ raised' = r.raised
           /\ pc' = IF r.raised = "none" THEN "page_loop" ELSE "except"
    /\ opens' = 0
    /\ prompts' = 0
    /\ password' = NoInput
    /\ UNCHANGED <<pages_string, dir_vars, doc, doc_open, output_format,
                   messages, page_vars, history_vars>>
    /\ UNCHANGED <<detect_vars, order_vars, scope>>

fresh_signatures_carried(before) == before

\* line 262: position_signatures = set(), for every page
fresh_signatures(before) == {}

\* lines 247-262: the loop takes some page of the set (a set has no order);
\* get_images reports the page's refs, some of which extract_image will
\* refuse
StartPage ==
    /\ pc \in {"page_loop", "page_end"}
    /\ \E p \in pages_left, list \in {l \in RefLists : Len(l) <= scope.refs} :
          \E bad \in SUBSET {Xref(list[k]) : k \in 1..Len(list)} :
              /\ page_idx' = p
              /\ pages_left' = pages_left \ {p}
              /\ image_list' = list
              /\ bad_xrefs' = bad
              /\ pc' = IF list = <<>> THEN "after_native" ELSE "native"
    /\ img_pos' = 1
    /\ position_signatures' = fresh_signatures(position_signatures)
    /\ img_count' = 0
    /\ extracted_any_images' = FALSE
    /\ exc' = FALSE
    /\ extracted_regions' = 0
    /\ region_i' = 0
    /\ fetched' = <<>>
    /\ page_written' = <<>>
    /\ fallback_ran' = FALSE
    /\ last_reserve' = NoReserve
    /\ errors_logged' = <<>>
    /\ UNCHANGED <<parse_vars, dir_vars, doc, doc_open, output_format, messages,
                   temp_files>>
    /\ UNCHANGED <<open_vars, detect_vars, order_vars, scope>>

\* lines 248-253: loading the page or listing its images raises: to line 390
StartPageFail ==
    /\ pc \in {"page_loop", "page_end"}
    /\ pages_left # {}
    /\ pc' = "except"
    /\ exc' = FALSE
    /\ UNCHANGED <<parse_vars, dir_vars, call_vars, page_idx, image_list,
                   bad_xrefs, img_pos, position_signatures, img_count,
                   extracted_any_images, temp_files, extracted_regions,
                   region_i, history_vars>>
    /\ UNCHANGED <<open_vars, detect_vars, order_vars, scope>>

is_duplicate_never(position_sig_, seen) == FALSE

\* line 272: if position_sig in position_signatures
is_duplicate(position_sig_, seen) == position_sig_ \in seen

extracted_flag_on_attempt(before, wrote) == TRUE

\* lines 257, 300: extracted_any_images becomes True once a file is written
extracted_flag(before, wrote) == before \/ wrote

\* what a call records about a file it wrote
Written(kind, n, base, path, img) ==
    [kind |-> kind, ord |-> n, base |-> base, path |-> path, img |-> img]

Reserved(base, ext, path) ==
    [base |-> base, ext |-> ext, before |-> DOMAIN files, path |-> path]

native_extension_requested(ext, requested) == requested

\* lines 281, 284: the native file name ends in image_data["ext"]
native_extension(ext, requested) == ext

next_img_pos_stop_on_error(pos, failed, n) == IF failed THEN n + 1 ELSE pos + 1

\* lines 264, 306-307: the except clause is inside the loop body, so the
\* loop goes on to the next ref after an error as after a success
next_img_pos(pos, failed, n) == pos + 1

count_after_every_ref(count, dup) == count + 1

\* lines 272-276: a duplicate leaves img_count alone (continue), any other
\* ref increments it before its extraction is tried
count_after(count, dup) == IF dup THEN count ELSE count + 1

native_ordinal_of_files(count, written) == written + 1

\* line 284: the ordinal in the file name is img_count
native_ordinal(count, written) == count

\* lines 264-307: one iteration of the loop over image_list
NativeStep ==
    /\ pc = "native"
    /\ LET img == image_list[img_pos]
           xref == Xref(img)
           sig == position_sig(img)
           dup == is_duplicate(sig, position_signatures)
           failed == ~dup /\ xref \in bad_xrefs
           next == next_img_pos(img_pos, failed, Len(image_list))
           count == count_after(img_count, FALSE)
           ordinal == native_ordinal(count, Len(page_written))
       IN  /\ IF dup
              THEN /\ img_count' = count_after(img_count, TRUE)
                   /\ UNCHANGED <<position_signatures, fetched, files,
                                  extracted_any_images, page_written,
                                  last_reserve, errors_logged>>
              ELSE /\ position_signatures' = position_signatures \cup {sig}
                   /\ img_count' = count
                   /\ fetched' = Append(fetched, img)
                   /\ IF failed
                      THEN \* extract_image raises: lines 306-307
                           /\ extracted_any_images' =
                                  extracted_flag(extracted_any_images, FALSE)
                           /\ errors_logged' = Append(errors_logged, img)
                           /\ UNCHANGED <<files, page_written, last_reserve>>
                      ELSE LET ext == native_extension(image_ext(xref),
                                                       output_format)
                               base == base_filename(doc.stem, page_idx + 1,
                                                     ordinal, ext)
                               output_path == reserve(base, DOMAIN files)
                           IN  /\ files' = write(files, output_path,
                                      [run |-> run, src |-> "native",
                                       id |-> xref, enc |-> image_ext(xref)])
                               /\ extracted_any_images' =
                                      extracted_flag(extracted_any_images, TRUE)
                               /\ page_written' = Append(page_written,
                                      Written("native", ordinal, base,
                                              output_path, img))
                               /\ last_reserve' = Reserved(base, ext, output_path)
                               /\ UNCHANGED errors_logged
           /\ img_pos' = next
           /\ pc' = IF next > Len(image_list) THEN "after_native" ELSE "native"
    /\ UNCHANGED <<parse_vars, run, dir_exists, call_vars, page_idx, image_list,
                   bad_xrefs, temp_files, exc, extracted_regions, region_i,
                   fallback_ran>>
    /\ UNCHANGED <<open_vars, detect_vars, order_vars, scope>>

\* line 311: a native file was written, the page is done
NativeDone ==
    /\ pc = "after_native"
    /\ extracted_any_images
    /\ pc' = "page_end"
    /\ UNCHANGED <<parse_vars, dir_vars, call_vars, page_vars, history_vars>>
    /\ UNCHANGED <<open_vars, detect_vars, order_vars, scope>>

TempFile == [run |-> run, page |-> page_idx]

\* lines 311-317: no native file: the fallback starts and creates its
\* temporary file
StartFallback ==
    /\ pc = "after_native"
    /\ ~extracted_any_images
    /\ fallback_ran' = TRUE
    /\ temp_files' = temp_files \cup {TempFile}
    /\ pc' = "render"
    /\ UNCHANGED <<parse_vars, dir_vars, call_vars, page_idx, image_list,
                   bad_xrefs, img_pos, position_signatures, img_count,
                   extracted_any_images, exc, extracted_regions, region_i,
                   fetched, page_written, last_reserve, errors_logged>>
    /\ UNCHANGED <<open_vars, detect_vars, order_vars, scope>>

\* a step of the fallback that changes nothing but pc, exc and the regions
FallbackStep(next_pc, failed, regions) ==
    /\ pc' = next_pc
    /\ exc' = failed
    /\ extracted_regions' = regions
    /\ UNCHANGED <<parse_vars, dir_vars, call_vars, page_idx, image_list,
                   bad_xrefs, img_pos, position_signatures, img_count,
                   extracted_any_images, temp_files, region_i, history_vars,
                   open_vars, detect_vars, order_vars, scope>>

\* lines 321-324: the page is rendered into the temporary file
Render == pc = "render" /\ FallbackStep("detect", FALSE, 0)

\* get_pixmap or pix.save raises: to the finally clause
RenderFail == pc = "render" /\ FallbackStep("cleanup", TRUE, 0)

after_detect_regions_only(k) == IF k = 0 THEN "cleanup" ELSE "save_region"

\* lines 329, 353: if not extracted_regions ... else
after_detect(k) == IF k = 0 THEN "save_page" ELSE "save_region"

\* line 327: the detector returns k regions, largest first
Detect ==
    /\ pc = "detect"
    /\ \E k \in 0..scope.regions : FallbackStep(after_detect(k), FALSE, k)

\* the detector raises
DetectFail == pc = "detect" /\ FallbackStep("cleanup", TRUE, 0)

region_ordinal_zero_based(i) == i

\* line 358: region_count = i + 1
region_ordinal(i) == i + 1

UpperOf ==
    [c \in {"p", "n", "g", "j", "e", "b", "m"} |->
        CASE c = "p" -> "P" [] c = "n" -> "N" [] c = "g" -> "G"
          [] c = "j" -> "J" [] c = "e" -> "E" [] c = "b" -> "B"
          [] c = "m" -> "M"]

upper_unchanged(s) == s

\* str.upper()
upper(s) == [k \in 1..Len(s) |-> IF s[k] \in DOMAIN UpperOf THEN UpperOf[s[k]]
                                                             ELSE s[k]]

\* lines 349, 202: save(path, format=output_format.upper()): the file is
\* encoded in the format PIL knows by that name
FallbackWrite(kind, n) ==
    LET base == base_filename(doc.stem, page_idx + 1, n, output_format)
        path == reserve(base, DOMAIN files)
    IN  /\ files' = write(files, path, [run |-> run, src |-> kind, id |-> n,
                                        enc |-> upper(output_format)])
        /\ page_written' = Append(page_written, Written(kind, n, base, path, <<>>))
        /\ last_reserve' = Reserved(base, output_format, path)

\* lines 329-352: no region: the whole page is saved, with ordinal 1
SavePage ==
    /\ pc = "save_page"
    /\ FallbackWrite("page", 1)
    /\ pc' = "cleanup"
    /\ UNCHANGED <<parse_vars, run, dir_exists, call_vars, page_vars, fetched,
                   fallback_ran, errors_logged>>
    /\ UNCHANGED <<open_vars, detect_vars, order_vars, scope>>

\* Image.open or img.save raises
SavePageFail ==
    /\ pc = "save_page"
    /\ FallbackStep("cleanup", TRUE, extracted_regions)

\* lines 357-377: one iteration of the loop over extracted_regions
SaveRegion ==
    /\ pc = "save_region"
    /\ region_i < extracted_regions
    /\ FallbackWrite("region", region_ordinal(region_i))
    /\ region_i' = region_i + 1
    /\ pc' = IF region_i + 1 < extracted_regions THEN "save_region" ELSE "cleanup"
    /\ UNCHANGED <<parse_vars, run, dir_exists, call_vars, page_idx, image_list,
                   bad_xrefs, img_pos, position_signatures, img_count,
                   extracted_any_images, temp_files, exc, extracted_regions,
                   fetched, fallback_ran, errors_logged>>
    /\ UNCHANGED <<open_vars, detect_vars, order_vars, scope>>

\* save_image raises
SaveRegionFail ==
    /\ pc = "save_region"
    /\ FallbackStep("cleanup", TRUE, extracted_regions)

unlink_unless_raised(temps, t, raising) == IF raising THEN temps ELSE temps \ {t}

\* lines 380-381: if os.path.exists(temp_path): os.unlink(temp_path)
unlink(temps, t, raising) == temps \ {t}

\* lines 378-381: finally: the temporary file is removed; an exception goes
\* on to line 390
Cleanup ==
    /\ pc = "cleanup"
    /\ temp_files' = unlink(temp_files, TempFile, exc)
    /\ pc' = IF exc THEN "except" ELSE "page_end"
    /\ UNCHANGED <<parse_vars, dir_vars, call_vars, page_idx, image_list,
                   bad_xrefs, img_pos, position_signatures, img_count,
                   extracted_any_images, exc, extracted_regions, region_i,
                   history_vars>>
    /\ UNCHANGED <<open_vars, detect_vars, order_vars, scope>>

\* line 384: after the last page the document is closed
Close ==
    /\ pc \in {"page_loop", "page_end"}
    /\ pages_left = {}
    /\ Return(<<>>, FALSE, opens)

\* lines 390-391: except Exception: the message is printed, process_pdf
\* returns, and line 384 is not reached
Except ==
    /\ pc = "except"
    /\ Raise("Exception", doc_open, opens)

Next ==
    \/ Call
    \/ MakeDirsOk
    \/ MakeDirsFail
    \/ OpenOk
    \/ OpenFail
    \/ OpenPasswordRequired
    \/ PasswordEmpty
    \/ PasswordInputFail
    \/ PasswordOpenOk
    \/ PasswordOpenFail
    \/ SelectPages
    \/ StartPage
    \/ StartPageFail
    \/ NativeStep
    \/ NativeDone
    \/ StartFallback
    \/ Render
    \/ RenderFail
    \/ Detect
    \/ DetectFail
    \/ SavePage
    \/ SavePageFail
    \/ SaveRegion
    \/ SaveRegionFail
    \/ Cleanup
    \/ Close
    \/ Except

Spec == Init /\ [][Next]_vars

SpecPage == InitPage /\ [][Next]_vars

SpecRefs == InitRefs /\ [][Next]_vars

\* SpecBatch: a batch of MaxRuns documents into a fresh output folder, as
\* process_directory's loop runs it (lines 407-416): the program takes its
\* next step as long as it has one
InitBatch ==
    /\ Init
    /\ files = <<>>

SpecBatch == InitBatch /\ [][Next]_vars /\ WF_vars(Next)

(***************************************************************************)
(* The page loop of process_pdf (lines 247-381) as a function of the order *)
(* in which `for page_idx in pages_to_process` takes the pages of the set, *)
(* for pages whose content and whose failures are fixed.                   *)
(***************************************************************************)
\* a page: the refs get_images reports, the xrefs extract_image refuses,
\* the number of regions the detector finds, the step that raises ("none",
\* "load", "render", "detect" or "save") and the regions saved before a
\* save raises
PageOutcomes ==
    {o \in [refs : {l \in RefLists : Len(l) <= 1},
            bad : SUBSET {Xref(r) : r \in RefPool},
            regions : 0..1,
            fails : {"none", "load", "render", "detect", "save"},
            saved : {0}] :
        o.bad \subseteq {Xref(o.refs[k]) : k \in 1..Len(o.refs)}}

\* the orders in which a loop over the set S can take its elements
Orders(S) ==
    {o \in [1..Cardinality(S) -> S] :
        \A i, j \in 1..Cardinality(S) : o[i] = o[j] => i = j}

\* lines 264-307: one iteration of the loop over image_list; acc holds the
\* directory, position_signatures, img_count, the number of files written
\* and extracted_any_images
native_ref(acc, d, fmt, r, p, img, bad) ==
    LET xref == Xref(img)
        sig == position_sig(img)
        dup == is_duplicate(sig, acc.seen)
        count == count_after(acc.count, dup)
    IN  IF dup THEN acc
        ELSE IF xref \in bad
        THEN [acc EXCEPT !.seen = @ \cup {sig}, !.count = count,
                         !.any = extracted_flag(@, FALSE)]
        ELSE LET ext == native_extension(image_ext(xref), fmt)
                 base == base_filename(d.stem, p + 1,
                             native_ordinal(count, acc.written), ext)
                 output_path == reserve(base, DOMAIN acc.files)
             IN  [files |-> write(acc.files, output_path,
                                  [run |-> r, src |-> "native", id |-> xref,
                                   enc |-> image_ext(xref)]),
                  seen |-> acc.seen \cup {sig},
                  count |-> count,
                  written |-> acc.written + 1,
                  any |-> extracted_flag(acc.any, TRUE)]

\* lines 256-307: the loop over image_list, from its k-th ref on
RECURSIVE native_pass(_, _, _, _, _, _, _, _)
native_pass(acc, d, fmt, r, p, list, bad, k) ==
    IF k > Len(list) THEN acc
    ELSE native_pass(native_ref(acc, d, fmt, r, p, list[k], bad),
                     d, fmt, r, p, list, bad, k + 1)

\* lines 329-373: a file of the fallback
fallback_file(dir, d, fmt, r, p, kind, n) ==
    write(dir, reserve(base_filename(d.stem, p + 1, n, fmt), DOMAIN dir),
          [run |-> r, src |-> kind, id |-> n, enc |-> upper(fmt)])

\* lines 357-377: the loop over extracted_regions, from index i to n - 1
RECURSIVE save_regions(_, _, _, _, _, _, _)
save_regions(dir, d, fmt, r, p, i, n) ==
    IF i >= n THEN dir
    ELSE save_regions(fallback_file(dir, d, fmt, r, p, "region",
                                    region_ordinal(i)),
                      d, fmt, r, p, i + 1, n)

\* lines 311-381: the fallback; raised: an exception left it
fallback_pass(dir, d, fmt, r, p, out) ==
    IF out.fails \in {"render", "detect"}
    THEN [files |-> dir, raised |-> TRUE]
    ELSE IF after_detect(out.regions) = "save_page"
    THEN IF out.fails = "save"
         THEN [files |-> dir, raised |-> TRUE]
         ELSE [files |-> fallback_file(dir, d, fmt, r, p, "page", 1),
               raised |-> FALSE]
    ELSE [files |-> save_regions(dir, d, fmt, r, p, 0,
                       IF out.fails = "save" THEN out.saved ELSE out.regions),
          raised |-> out.fails = "save"]

\* lines 247-381: the body of the page loop for page p
process_page(dir, d, fmt, r, p, out) ==
    IF out.fails = "load"
    THEN [files |-> dir, raised |-> TRUE]
    ELSE LET native == native_pass([files |-> dir, seen |-> fresh_signatures({}),
                                    count |-> 0, written |-> 0, any |-> FALSE],
                                   d, fmt, r, p, out.refs, out.bad, 1)
         IN  IF native.any
             THEN [files |-> native.files, raised |-> FALSE]
             ELSE fallback_pass(native.files, d, fmt, r, p, out)

\* lines 247-391: the page loop taking the pages in the given order, from
\* the k-th on; an exception that leaves a page's body leaves the loop and
\* is handled at line 390
RECURSIVE process_pages(_, _, _, _, _, _, _)
process_pages(dir, d, fmt, r, order, env, k) ==
    IF k > Len(order) THEN dir
    ELSE LET res == process_page(dir, d, fmt, r, order[k], env[order[k]])
         IN  IF res.raised THEN res.files
             ELSE process_pages(res.files, d, fmt, r, order, env, k + 1)

\* SpecOrder: one document, selector and output directory, the pages'
\* content fixed, and the page loop run in two orders
InitOrder ==
    /\ pc = "order_call"
    /\ doc \in Docs
    /\ pages_string \in CallSelectors
    /\ total_pages = doc.npages
    /\ pages_to_process = parse_pages(pages_string, doc.npages).pages
    /\ warnings = parse_pages(pages_string, doc.npages).warnings
    /\ raised = "none"
    /\ run = 1
    /\ dir_exists = TRUE
    /\ \E dir \in {{}, {Foo(<<>>)}} : files = [n \in dir |-> Old]
    /\ doc_open = TRUE
    /\ output_format = png
    /\ pages_left = pages_to_process
    /\ messages = <<>>
    /\ opens = 0 /\ prompts = 0 /\ password = NoInput
    /\ PageIdle
    /\ DetectIdle
    /\ page_env \in [pages_to_process -> PageOutcomes]
    /\ orders \in Orders(pages_to_process) \X Orders(pages_to_process)
    /\ outcomes = <<>>
    /\ scope = [runs |-> 1, refs |-> 1, regions |-> 1, formats |-> {png}]

ProcessInOrders ==
    /\ pc = "order_call"
    /\ outcomes' = [k \in 1..2 |->
                       process_pages(files, doc, output_format, run, orders[k],
                                     page_env, 1)]
    /\ pc' = "order_done"
    /\ UNCHANGED <<parse_vars, dir_vars, call_vars, page_vars, history_vars,
                   open_vars, detect_vars, page_env, orders, scope>>

NextOrder == ProcessInOrders

SpecOrder == InitOrder /\ [][NextOrder]_vars

(***************************************************************************)
(* The selector as the documentation reads it: its comma-separated tokens  *)
(* and what each contributes.                                              *)
(***************************************************************************)
\* the maximal comma-free stretches <<i, j>> of s (j = i - 1: an empty token)
TokenSpans(s) ==
    {sp \in (1..(Len(s) + 1)) \X (0..Len(s)) :
        /\ sp[2] >= sp[1] - 1
        /\ sp[1] = 1 \/ s[sp[1] - 1] = ","
        /\ sp[2] = Len(s) \/ s[sp[2] + 1] = ","
        /\ \A k \in sp[1]..sp[2] : s[k] # ","}

Token(s, sp) == SubSeq(s, sp[1], sp[2])

Hyphens(tok) == {k \in 1..Len(tok) : tok[k] = "-"}

\* a single 1-based integer
IsSingleToken(tok) == Hyphens(tok) = {} /\ int(tok).exc = "none"

\* a range a-b: one hyphen with an integer on either side
IsRangeToken(tok) ==
    /\ Cardinality(Hyphens(tok)) = 1
    /\ LET k == CHOOSE h \in Hyphens(tok) : TRUE
       IN  /\ int(SubSeq(tok, 1, k - 1)).exc = "none"
           /\ int(SubSeq(tok, k + 1, Len(tok))).exc = "none"

RangeLow(tok) == int(SubSeq(tok, 1, (CHOOSE h \in Hyphens(tok) : TRUE) - 1)).v

RangeHigh(tok) ==
    int(SubSeq(tok, (CHOOSE h \in Hyphens(tok) : TRUE) + 1, Len(tok))).v

Contribution(tok, total) ==
    IF IsSingleToken(tok)
    THEN {i \in 0..(total - 1) : i = int(tok).v - 1}
    ELSE IF IsRangeToken(tok)
    THEN {i \in 0..(total - 1) :
             /\ i >= (IF RangeLow(tok) > 1 THEN RangeLow(tok) ELSE 1) - 1
             /\ i <= (IF RangeHigh(tok) < total THEN RangeHigh(tok) ELSE total) - 1}
    ELSE {}

\* a token parse_pages must warn about: malformed, or a single page outside
\* [1, total]
IsInvalidToken(tok, total) ==
    \/ ~IsSingleToken(tok) /\ ~IsRangeToken(tok)
    \/ IsSingleToken(tok) /\ ~(1 <= int(tok).v /\ int(tok).v <= total)

ParseDone == pc = "parse_done"

\* C1: with an absent (None) or empty selector parse_pages returns exactly
\* {0, ..., total_pages - 1}, for every total_pages >= 0 (the empty set for 0).
C1_AllPagesWhenNoSelector ==
    (ParseDone /\ (~pages_string.present \/ pages_string.chars = <<>>))
        => /\ \A i \in 0..(total_pages + 1) :
                  i \in pages_to_process <=> i < total_pages
           /\ \A i \in pages_to_process : i \in 0..total_pages
           /\ total_pages = 0 => pages_to_process = {}
           /\ raised = "none"

C1_Witness ==
    /\ ParseDone
    /\ pages_string = None
    /\ total_pages = 3
    /\ pages_to_process = {0, 1, 2}

\* C2: whatever the selector, every index parse_pages returns is at least 0
\* and less than total_pages.
C2_IndicesInBounds ==
    ParseDone => \A i \in pages_to_process : 0 <= i /\ i < total_pages

\* the range 1-20 of a 2-page document: the end is cut back to the last page
C2_Witness ==
    /\ ParseDone
    /\ pages_string = Sel(<<"1", "-", "2", "0">>)
    /\ total_pages = 2
    /\ pages_to_process = {0, 1}

\* C3: for a non-empty selector the result is exactly the union of what its
\* comma-separated tokens contribute (a single n in [1, total] gives n-1, a
\* range a-b gives max(1,a)-1 .. min(total,b)-1, anything else nothing);
\* '2-5' of 10 gives {1,2,3,4} and '1,3-5,8' of 10 gives {0,2,3,4,7}.
C3_UnionOfTokenContributions ==
    /\ (ParseDone /\ truthy(pages_string)) =>
          pages_to_process =
              UNION {Contribution(Token(pages_string.chars, sp), total_pages) :
                         sp \in TokenSpans(pages_string.chars)}
    /\ (ParseDone /\ pages_string = Sel(<<"2", "-", "5">>) /\ total_pages = 10)
          => pages_to_process = {1, 2, 3, 4}
    /\ (ParseDone /\ total_pages = 10
          /\ pages_string = Sel(<<"1", ",", "3", "-", "5", ",", "8">>))
          => pages_to_process = {0, 2, 3, 4, 7}

C3_Witness ==
    /\ ParseDone
    /\ pages_string = Sel(<<"1", ",", "3", "-", "5", ",", "8">>)
    /\ total_pages = 10
    /\ pages_to_process = {0, 2, 3, 4, 7}

\* C4: parse_pages never raises on an invalid token: every malformed token
\* and every single page outside [1, total_pages] produces one warning and
\* is skipped, and every other token, before or after it, still contributes.
C4_InvalidTokensWarnedAndSkipped ==
    (ParseDone /\ truthy(pages_string)) =>
        LET s == pages_string.chars
            bad == {sp \in TokenSpans(s) : IsInvalidToken(Token(s, sp), total_pages)}
        IN  /\ raised = "none"
            /\ Len(warnings) = Cardinality(bad)
            /\ {warnings[k].part : k \in 1..Len(warnings)} = {Token(s, sp) : sp \in bad}
            /\ \A k \in 1..Len(warnings) :
                  warnings[k].kind = "out_of_range" <=> IsSingleToken(warnings[k].part)
            /\ \A sp \in TokenSpans(s) \ bad :
                  Contribution(Token(s, sp), total_pages) \subseteq pages_to_process

\* '1,a,3' of 5: the token a is warned about, pages 1 and 3 on either side
\* of it are kept
C4_Witness ==
    /\ ParseDone
    /\ pages_string = Sel(<<"1", ",", "a", ",", "3">>)
    /\ total_pages = 5
    /\ pages_to_process = {0, 2}
    /\ Len(warnings) = 1
    /\ warnings[1].kind = "invalid_number"

(***************************************************************************)
(* process_pdf: what the history variables say about the current page.     *)
(***************************************************************************)
NativeFiles == {k \in 1..Len(page_written) : page_written[k].kind = "native"}

FallbackFiles == {k \in 1..Len(page_written) : page_written[k].kind # "native"}

Signatures == {position_sig(image_list[k]) : k \in 1..Len(image_list)}

\* the signatures of the page whose image extract_image delivers
GoodSignatures ==
    {position_sig(image_list[k]) :
        k \in {j \in 1..Len(image_list) : Xref(image_list[j]) \notin bad_xrefs}}

\* the page's processing is over: normally, or by an exception of its
\* fallback
PageOver == pc = "page_end" \/ (pc = "except" /\ exc)

\* name, which ends in .ext, with _n put in before the extension
WithSuffix(name, ext, n) ==
    SubSeq(name, 1, Len(name) - Len(ext) - 1)
        \o <<"_">> \o str_int(n) \o <<".">> \o ext

\* C5: the reservation returns the base name unchanged when no file has it,
\* and otherwise the base name with _n before the extension for the smallest
\* n >= 1 that is free; the returned path does not exist when it is
\* returned (foo.png existing gives foo_1.png; foo.png, foo_1.png and
\* foo_2.png existing give foo_3.png).
C5_ReserveSmallestFreeSuffix ==
    last_reserve # NoReserve =>
        LET r == last_reserve
            Suffixed(n) == WithSuffix(r.base, r.ext, n)
        IN  /\ r.path \notin r.before
            /\ r.base \notin r.before => r.path = r.base
            /\ r.base \in r.before =>
                  \E n \in 1..(Cardinality(r.before) + 1) :
                      /\ r.path = Suffixed(n)
                      /\ \A m \in 1..(n - 1) : Suffixed(m) \in r.before
            /\ (r.base = Foo(<<>>) /\ Foo(<<>>) \in r.before
                    /\ Foo(<<"_", "1">>) \notin r.before)
                  => r.path = Foo(<<"_", "1">>)
            /\ (r.base = Foo(<<>>)
                    /\ {Foo(<<>>), Foo(<<"_", "1">>), Foo(<<"_", "2">>)}
                           \subseteq r.before
                    /\ Foo(<<"_", "3">>) \notin r.before)
                  => r.path = Foo(<<"_", "3">>)

\* foo.png, foo_1.png and foo_2.png existed and foo_3.png was reserved
C5_Witness ==
    /\ last_reserve.base = Foo(<<>>)
    /\ {Foo(<<>>), Foo(<<"_", "1">>), Foo(<<"_", "2">>)} \subseteq last_reserve.before
    /\ last_reserve.path = Foo(<<"_", "3">>)
    /\ Foo(<<"_", "3">>) \in DOMAIN files

\* C6: over any sequence of process_pdf calls into one directory, every
\* file is written to a path that did not exist just before the write: no
\* file is overwritten or changed, and the set of files only grows.
C6_NoFileOverwritten ==
    [][ /\ \A f \in DOMAIN files : f \in DOMAIN files' /\ files'[f] = files[f]
        /\ (page_written' # page_written /\ page_written' # <<>>) =>
              LET w == page_written'[Len(page_written')]
              IN  /\ w.path \notin DOMAIN files
                  /\ DOMAIN files' = DOMAIN files \cup {w.path} ]_vars

\* the second call wrote beside a file of the first call whose name it
\* would have used
C6_Witness ==
    /\ run = 2
    /\ page_written # <<>>
    /\ LET w == page_written[Len(page_written)]
       IN  /\ w.path # w.base
           /\ w.base \in DOMAIN files
           /\ files[w.base].run = 1
           /\ files[w.path].run = 2

\* C7: on one page, for each distinct placement tuple the image bytes are
\* fetched exactly once and at most one file is written, however often the
\* tuple is repeated in the page's ref list.
C7_EachDistinctTupleFetchedOnce ==
    pc = "after_native" =>
        \A t \in {image_list[k] : k \in 1..Len(image_list)} :
            /\ Cardinality({k \in 1..Len(fetched) : fetched[k] = t}) = 1
            /\ Cardinality({k \in NativeFiles : page_written[k].img = t}) <= 1

\* C8: for every processed page the fallback runs if and only if the native
\* attempt wrote no file; a page with a native file is never rendered and
\* gets no fallback file.
C8_FallbackIffNoNativeFile ==
    /\ fallback_ran => NativeFiles = {}
    /\ FallbackFiles # {} => fallback_ran
    /\ pc \in {"render", "detect", "save_page", "save_region", "cleanup"}
          => NativeFiles = {} /\ ~extracted_any_images
    /\ PageOver => (fallback_ran <=> NativeFiles = {})

\* every unique ref of the page failed, the fallback ran and wrote
C8_Witness ==
    /\ pc = "page_end"
    /\ image_list # <<>>
    /\ Len(fetched) = 2
    /\ NativeFiles = {}
    /\ fallback_ran
    /\ FallbackFiles # {}

ExpectedName(stem, p, i, fmt) ==
    stem \o <<"-", "p", "a", "g", "e", "-", DigitChars[p + 1], "-", "i", "m", "a",
              "g", "e", "-", DigitChars[i + 1], ".">> \o fmt

\* the files the fallback wrote are the k regions, in the detector's order
RegionFilesWritten(k) ==
    /\ Len(page_written) = k
    /\ \A i \in 1..k :
          LET w == page_written[i]
          IN  /\ w.kind = "region"
              /\ w.ord = i
              /\ w.base = ExpectedName(doc.stem, page_idx + 1, i, output_format)
              /\ w.path \in DOMAIN files
              /\ files[w.path].run = run
              /\ files[w.path].src = "region"
              /\ files[w.path].id = i
              /\ \/ w.path = w.base
                 \/ \E n \in 1..Cardinality(DOMAIN files) :
                        w.path = WithSuffix(w.base, output_format, n)

EncodingOf(fmt) ==
    CASE fmt = png -> <<"P", "N", "G">>
      [] fmt = jpeg -> <<"J", "P", "E", "G">>
      [] fmt = bmp -> <<"B", "M", "P">>

\* the page's only file is the whole rendered page, ordinal 1, under the
\* base name {stem}-page-{p}-image-1.{requested format}, in that encoding
WholePageWritten ==
    /\ Len(page_written) = 1
    /\ LET w == page_written[1]
       IN  /\ w.kind = "page"
           /\ w.ord = 1
           /\ w.base = ExpectedName(doc.stem, page_idx + 1, 1, output_format)
           /\ w.path \in DOMAIN files
           /\ files[w.path].run = run
           /\ files[w.path].src = "page"
           /\ files[w.path].enc = EncodingOf(output_format)

DetectDone == pc = "detect_done"

\* the contour the i-th returned region came from
SourceContour(i) == contours[extracted_images[i].contour]

\* the contour's bounding rectangle with 5% of its width and height added
\* on every side, cut off at the page's edges
ExpandedRect(c) ==
    LET mx == CHOOSE n \in 0..c.w : 20 * n <= c.w /\ c.w < 20 * (n + 1)
        my == CHOOSE n \in 0..c.h : 20 * n <= c.h /\ c.h < 20 * (n + 1)
    IN  [x1 |-> IF c.x - mx < 0 THEN 0 ELSE c.x - mx,
         y1 |-> IF c.y - my < 0 THEN 0 ELSE c.y - my,
         x2 |-> IF c.x + c.w + mx > image.width THEN image.width
                                                 ELSE c.x + c.w + mx,
         y2 |-> IF c.y + c.h + my > image.height THEN image.height
                                                  ELSE c.y + c.h + my]

Area(r) == (r.x2 - r.x1) * (r.y2 - r.y1)

PageArea == image.width * image.height

\* C12: the detector never returns a region whose margin-expanded, clamped
\* rectangle has an area <= minArea or > 90% of the page area; what it
\* returns is the whole expanded rectangle of a contour, never a clipped one.
C12_RegionAreasWithinLimits ==
    DetectDone =>
        \A i \in 1..Len(extracted_images) :
            LET r == extracted_images[i].rect
            IN  /\ r = ExpandedRect(SourceContour(i))
                /\ Area(r) > min_area
                /\ 10 * Area(r) <= 9 * PageArea

\* on a 40x40 page a 36x36 contour, whose rectangle with margins covers
\* 1444 of 1600 pixels, is dropped while a smaller one is returned
C12_Witness ==
    /\ DetectDone
    /\ image = Bitmap(40, 40)
    /\ min_area = 900
    /\ \E k \in 1..Len(contours) :
          /\ contours[k] = Contour(1001, 2, 2, 36, 36)
          /\ \A i \in 1..Len(extracted_images) : extracted_images[i].contour # k
    /\ Len(extracted_images) = 1
    /\ Area(extracted_images[1].rect) = 1152

\* C13: the returned regions are in non-increasing order of the enclosed
\* area of their contours, every one comes from a contour of enclosed area
\* > minArea, and they stand in the order the sort gave their contours:
\* dropping a rectangle in the final filter moves none of the others.
C13_RegionsLargestContourFirst ==
    DetectDone =>
        /\ \A i \in 1..Len(extracted_images) :
               /\ extracted_images[i].contour \in 1..Len(contours)
               /\ SourceContour(i).area > min_area
        /\ \A i, j \in 1..Len(extracted_images) :
               i < j =>
                   \/ SourceContour(i).area > SourceContour(j).area
                   \/ /\ SourceContour(i).area = SourceContour(j).area
                      /\ extracted_images[i].contour < extracted_images[j].contour

\* three contours reported smallest first, the middle one dropped as too
\* large: the largest and the smallest are returned, in that order
C13_Witness ==
    /\ DetectDone
    /\ image = Bitmap(40, 50)
    /\ min_area = DefaultMinArea
    /\ contours = <<Contour(1100, 0, 0, 36, 36), Contour(1400, 0, 0, 40, 46),
                    Contour(1500, 0, 0, 40, 40)>>
    /\ Len(extracted_images) = 2
    /\ extracted_images[1].contour = 3
    /\ extracted_images[2].contour = 1

\* C14: when the page bitmap cannot be read or decoded the detector returns
\* an empty list, prints an error that names the path, and raises nothing.
C14_UnreadableGivesEmptyList ==
    (DetectDone /\ ~image.readable) =>
        /\ extracted_images = <<>>
        /\ raised = "none"
        /\ Len(printed) = 1
        /\ printed[1][1] = "Error: Could not read image at"
        /\ printed[1][2] = image_path

C14_Witness ==
    /\ DetectDone
    /\ image = NoImage
    /\ image_path = <<"t", "m", "p", "2">>
    /\ extracted_images = <<>>
    /\ printed = <<<<"Error: Could not read image at", <<"t", "m", "p", "2">>>>>>

(***************************************************************************)
(* Documents: opening, errors, closing.                                    *)
(***************************************************************************)
\* C15: a password failure of the first open is followed by exactly one
\* prompt.  An empty answer ends the call with 'No password provided',
\* without a second open and without an output file; a non-empty answer is
\* followed by exactly one more open, and if that one fails the call ends
\* without an output file; no call opens the document more than twice.
C15_PasswordPromptedOnce ==
    [][/\ opens' <= 2
       /\ prompts' <= 1
       /\ (pc = "open" /\ pc' = "password") => (opens' = 1 /\ prompts' = 1)
       /\ pc \in {"makedirs", "open", "password"} => files' = files
       /\ (pc = "password" /\ ~password.eof /\ password.text = <<>>)
             => /\ pc' = "idle"
                /\ messages' = <<"No password provided">>
                /\ opens' = 1
                /\ prompts' = 1
                /\ ~doc_open'
       /\ (pc = "password" /\ ~password.eof /\ password.text # <<>>)
             => /\ opens' = 2
                /\ prompts' = 1
                /\ \/ pc' = "select" /\ doc_open'
                   \/ pc' = "idle" /\ ~doc_open' /\ messages' # <<>>
      ]_vars

\* the second of two calls was given a wrong password: two opens, one
\* prompt, and the directory as the first call left it
C15_Witness ==
    /\ pc = "idle"
    /\ run = 2
    /\ messages = <<"Incorrect password">>
    /\ opens = 2
    /\ prompts = 1
    /\ ~doc_open

\* C16: process_pdf never lets an error go on to its caller: every failure
\* ends the call with a message printed, and the batch goes on, one document
\* strictly after the other, until every one of its documents has been
\* processed.
C16_ErrorsNeverLeaveProcessPdf ==
    /\ [](pc # "propagated")
    /\ [][(pc' = "idle" /\ pc \notin {"idle", "page_loop", "page_end"})
             => messages' # <<>>]_vars
    /\ [][run' # run => (pc = "idle" /\ pc' = "makedirs" /\ run' = run + 1)]_vars
    /\ <>[](pc = "idle" /\ run = scope.runs)

\* the first document of a batch was not found; another one is still to come
C16_Witness ==
    /\ pc = "idle"
    /\ run = 1
    /\ run < scope.runs
    /\ messages = <<"Error: PDF file not found">>
    /\ ~doc_open

\* C17: an error of the fallback (rendering, region detection, saving) on
\* one page does not end the document: process_pdf does not return after
\* such an error while selected pages are still waiting.
C17_PageErrorSkipsOnlyThePage ==
    [][(exc /\ pc' = "idle") => pages_left = {}]_vars

(***************************************************************************)
(* What the files hold.                                                    *)
(***************************************************************************)
\* the extension of a file name: what follows its last dot
Extension(path) ==
    LET d == CHOOSE k \in 1..Len(path) :
                 path[k] = "." /\ \A j \in (k + 1)..Len(path) : path[j] # "."
    IN  SubSeq(path, d + 1, Len(path))

\* C18: a native file holds the fetched bytes of its image as they are, under
\* the extension the image declares, whatever format was requested; a
\* fallback file has the requested format as its extension.
C18_NativeVerbatimFallbackRequested ==
    \A k \in 1..Len(page_written) :
        LET w == page_written[k]
        IN  IF w.kind = "native"
            THEN /\ Extension(w.path) = image_ext(Xref(w.img))
                 /\ files[w.path].src = "native"
                 /\ files[w.path].id = Xref(w.img)
                 /\ files[w.path].enc = image_ext(Xref(w.img))
            ELSE /\ Extension(w.path) = output_format
                 /\ files[w.path].src = w.kind

\* bmp was requested; the page's png image and its jpeg image were written
\* as a .png and a .jpeg file
C18_Witness ==
    /\ pc = "page_end"
    /\ output_format = bmp
    /\ Len(page_written) = 2
    /\ page_written[1].kind = "native"
    /\ Extension(page_written[1].path) = png
    /\ Extension(page_written[2].path) = jpeg
    /\ files[page_written[2].path].enc = jpeg

\* the refs of fetched whose extraction fails, in order
RECURSIVE Failing(_)
Failing(refs) ==
    IF refs = <<>> THEN <<>>
    ELSE (IF Xref(Head(refs)) \in bad_xrefs THEN <<Head(refs)>> ELSE <<>>)
             \o Failing(Tail(refs))

\* C19: an extraction error on the native path is logged and skips that
\* image only: every unique ref of the page is attempted, each failing one
\* is logged, each other one is written, and the native attempt is
\* successful exactly if some image was written.
C19_ExtractionErrorSkipsOneImage ==
    pc = "after_native" =>
        /\ {position_sig(fetched[k]) : k \in 1..Len(fetched)} = Signatures
        /\ Len(fetched) = Cardinality(Signatures)
        /\ errors_logged = Failing(fetched)
        /\ Len(page_written) = Len(fetched) - Len(errors_logged)
        /\ \A k \in 1..Len(page_written) :
               /\ page_written[k].kind = "native"
               /\ Xref(page_written[k].img) \notin bad_xrefs
        /\ extracted_any_images <=> page_written # <<>>

\* the first ref of the page fails, the second is still fetched and written
C19_Witness ==
    /\ pc = "after_native"
    /\ image_list = <<RefD, RefC>>
    /\ bad_xrefs = {2}
    /\ fetched = <<RefD, RefC>>
    /\ errors_logged = <<RefD>>
    /\ Len(page_written) = 1
    /\ page_written[1].img = RefC
    /\ extracted_any_images

\* C20: every document process_pdf opened is closed when process_pdf
\* returns, on every path.
C20_OpenedDocumentsClosed ==
    pc = "idle" => ~doc_open

(***************************************************************************)
(* Temporary files and the batch.                                          *)
(***************************************************************************)
\* C21: the temporary file of a page's fallback exists only while that
\* fallback runs: it is removed on every way out of it, an exception
\* included, so no two pages' files ever exist together and none is left
\* when the next page begins or process_pdf returns.
C21_TempFileGoneAfterFallback ==
    /\ Cardinality(temp_files) <= 1
    /\ temp_files # {} =>
          /\ pc \in {"render", "detect", "save_page", "save_region", "cleanup"}
          /\ temp_files = {TempFile}
    /\ pc \in {"render", "detect", "save_page", "save_region", "cleanup"}
          => temp_files = {TempFile}

\* the fallback of the second page of a call has raised and has been left
C21_Witness ==
    /\ pc = "except"
    /\ exc
    /\ fallback_ran
    /\ pages_left = {}
    /\ Cardinality(pages_to_process) = 2
    /\ temp_files = {}

\* C22: being unable to create the output directory ends the batch and is
\* reported once: after a failed creation no further document is started.
C22_MakeDirsFailureEndsBatch ==
    ~dir_exists => run <= 1

(***************************************************************************)
(* Ranges that clamp to nothing.                                           *)
(***************************************************************************)
\* a range a-b that is empty once a is raised to 1 and b lowered to total
EmptyAfterClamping(tok, total) ==
    \/ RangeLow(tok) > RangeHigh(tok)
    \/ RangeLow(tok) > total
    \/ RangeHigh(tok) < 1

\* C25: the two ends of a range are clamped independently, the start to at
\* least 1 and the end to at most total_pages; a range that is empty after
\* clamping adds no page and causes neither an exception nor a warning.
C25_EmptyRangeIsSilent ==
    (ParseDone /\ truthy(pages_string)) =>
        LET s == pages_string.chars
            ranges == {Token(s, sp) : sp \in {q \in TokenSpans(s) :
                                                  IsRangeToken(Token(s, q))}}
        IN  /\ raised = "none"
            /\ \A tok \in ranges :
                  /\ \A k \in 1..Len(warnings) : warnings[k].part # tok
                  /\ \A i \in 0..(total_pages - 1) :
                        (max(1, RangeLow(tok)) - 1 <= i
                            /\ i <= min(total_pages, RangeHigh(tok)) - 1)
                        => i \in pages_to_process
                  /\ EmptyAfterClamping(tok, total_pages) =>
                        max(1, RangeLow(tok)) > min(total_pages, RangeHigh(tok))
            /\ (\A sp \in TokenSpans(s) :
                    /\ IsRangeToken(Token(s, sp))
                    /\ max(1, RangeLow(Token(s, sp)))
                          > min(total_pages, RangeHigh(Token(s, sp))))
                  => (pages_to_process = {} /\ warnings = <<>>)

\* '2-0' of 1: the range starts beyond the last page, ends below 1 and is
\* reversed
C25_Witness ==
    /\ ParseDone
    /\ pages_string = Sel(<<"2", "-", "0">>)
    /\ EmptyAfterClamping(pages_string.chars, total_pages)
    /\ total_pages = 1
    /\ pages_to_process = {}
    /\ warnings = <<>>
    /\ raised = "none"

(***************************************************************************)
(* The region rectangle.                                                   *)
(***************************************************************************)
\* floor(0.05 * n)
FloorOfTwentieth(n) == CHOOSE q \in 0..n : 20 * q <= n /\ n < 20 * (q + 1)

\* C26: for every contour bounding rectangle (x, y, w, h) inside the bitmap
\* the region rectangle is x1 = max(0, x - floor(0.05 w)),
\* y1 = max(0, y - floor(0.05 h)), x2 = min(width, x + w + floor(0.05 w)),
\* y2 = min(height, y + h + floor(0.05 h)); it is not empty, lies inside the
\* bitmap and contains the bounding rectangle.  Every returned region is
\* such a rectangle.
C26_RegionRectClampedMargins ==
    LET Holds(c, r) ==
            LET mx == FloorOfTwentieth(c.w)
                my == FloorOfTwentieth(c.h)
            IN  /\ r.x1 = (IF c.x - mx < 0 THEN 0 ELSE c.x - mx)
                /\ r.y1 = (IF c.y - my < 0 THEN 0 ELSE c.y - my)
                /\ r.x2 = (IF c.x + c.w + mx > image.width
                           THEN image.width ELSE c.x + c.w + mx)
                /\ r.y2 = (IF c.y + c.h + my > image.height
                           THEN image.height ELSE c.y + c.h + my)
                /\ 0 <= r.x1 /\ r.x1 < r.x2 /\ r.x2 <= image.width
                /\ 0 <= r.y1 /\ r.y1 < r.y2 /\ r.y2 <= image.height
                /\ r.x1 <= c.x /\ c.x + c.w <= r.x2
                /\ r.y1 <= c.y /\ c.y + c.h <= r.y2
    IN  /\ image.readable =>
              \A k \in 1..Len(contours) :
                  Holds(contours[k],
                        region_rect(contours[k], image.width, image.height))
        /\ DetectDone =>
              \A i \in 1..Len(extracted_images) :
                  Holds(SourceContour(i), extracted_images[i].rect)

\* a returned region whose margin is cut off at the top edge and kept whole
\* on the other three sides, next to a contour too narrow for a margin
C26_Witness ==
    /\ DetectDone
    /\ \E i \in 1..Len(extracted_images) :
          LET c == SourceContour(i)
              r == extracted_images[i].rect
          IN  /\ c.y - FloorOfTwentieth(c.h) < 0 /\ r.y1 = 0
              /\ r.x1 = c.x - FloorOfTwentieth(c.w) /\ r.x1 > 0
              /\ r.x2 < image.width /\ r.y2 < image.height
    /\ \E k \in 1..Len(contours) : FloorOfTwentieth(contours[k].w) = 0

(***************************************************************************)
(* Native ordinals and the scope of duplicate detection.                   *)
(***************************************************************************)
\* the refs of the page the loop has gone through
RefsDone == IF pc = "native" THEN img_pos - 1 ELSE Len(image_list)

\* image_list[k] is the first ref of the page with its signature
IsFirstOfSignature(k) ==
    \A j \in 1..(k - 1) : position_sig(image_list[j]) # position_sig(image_list[k])

\* the 1-based position of image_list[k]'s signature among the page's
\* distinct signatures, in the order they are met
UniqueRank(k) == Cardinality({position_sig(image_list[j]) : j \in 1..k})

\* a file of this call that another page of the document got
OtherPageFiles ==
    {n \in DOMAIN files :
        /\ files[n].run = run
        /\ \A k \in 1..Len(page_written) : page_written[k].path # n}

SecondPageOfCall == pages_left = {} /\ Cardinality(pages_to_process) = 2

C24_DuplicatesScopedToPage ==
    /\ position_signatures =
           {position_sig(image_list[k]) : k \in 1..RefsDone}
    /\ img_count = Cardinality(position_signatures)
    /\ {position_sig(fetched[j]) : j \in 1..Len(fetched)} = position_signatures

\* both pages of a document show the image of xref 2, which only RefD has:
\* the second page processed still fetches and writes it, as image 1
C24_Witness ==
    /\ pc = "after_native"
    /\ SecondPageOfCall
    /\ \E n \in OtherPageFiles : files[n].src = "native" /\ files[n].id = 2
    /\ image_list = <<RefD>>
    /\ fetched = <<RefD>>
    /\ Len(page_written) = 1
    /\ page_written[1].ord = 1
    /\ files[page_written[1].path].id = 2

\* C27: two refs of a page are treated as duplicates only if their
\* placement tuples are equal element by element: no ref is skipped unless
\* an equal tuple came before it on the page.
C27_OnlyEqualTuplesAreDuplicates ==
    \A k \in 1..RefsDone :
        \E j \in 1..Len(fetched) : fetched[j] = image_list[k]

\* C28: the ordinal is taken before the extraction and never given again:
\* the k-th unique ref of the page gets ordinal k whether or not its
\* extraction succeeds, a failed one leaves no file with that ordinal, and
\* the ordinals of the page's files increase strictly in the order met and
\* lie in 1..U for U unique signatures.
C28_OrdinalsNeverRenumbered ==
    /\ img_count = Len(fetched)
    /\ \A j \in 1..Len(fetched) :
          LET with_j == {k \in NativeFiles : page_written[k].ord = j}
          IN  IF Xref(fetched[j]) \in bad_xrefs
              THEN with_j = {}
              ELSE /\ Cardinality(with_j) = 1
                   /\ \A k \in with_j :
                         /\ page_written[k].img = fetched[j]
                         /\ page_written[k].base =
                                ExpectedName(doc.stem, page_idx + 1, j,
                                             image_ext(Xref(fetched[j])))
    /\ \A k \in NativeFiles :
          /\ page_written[k].ord \in 1..Cardinality(Signatures)
          /\ \A i \in NativeFiles :
                i < k => page_written[i].ord < page_written[k].ord

\* three unique refs, the extraction of the second fails: files 1 and 3
C28_Witness ==
    /\ pc = "after_native"
    /\ image_list = <<RefA, RefD, RefC>>
    /\ bad_xrefs = {2}
    /\ errors_logged = <<RefD>>
    /\ Len(page_written) = 2
    /\ page_written[1].ord = 1
    /\ page_written[2].ord = 3
    /\ page_written[2].img = RefC

C29_OutputIndependentOfPageOrder ==
    pc = "order_done" => outcomes[1] = outcomes[2]

====
